---- MODULE Spec2Model ----
(***************************************************************************)
(* The social-media backend as a state machine.  The state is the five     *)
(* tables of the relational store (user, friend, post, comment, story),    *)
(* the wall clock, the HTTP response of the last request, and the          *)
(* send-requests that worker threads are in the middle of.  Service        *)
(* functions (src/services) are operators over the tables; route handlers  *)
(* (src/routes) are the actions.  The store is the default one of          *)
(* core/config.py (SQLite): an INTEGER PRIMARY KEY left unset gets         *)
(* max(id)+1, and DateTime columns hold naive UTC wall-clock values.       *)
(***************************************************************************)
EXTENDS Integers, FiniteSets, Sequences, TLC

\* ---- bounds of the model ------------------------------------------------
MaxUsers == 2
MaxFriends == 2
MaxPosts == 2
MaxComments == 2
MaxStories == 2
\* The last value of the model clock, which ticks every 12 hours.
MaxTime == 4
\* The most ticks that pass between two clock reads of one request.
MaxSkew == 2
\* The rows of a small store, all tables together.
MaxRows == 3
\* The worker threads that serve requests at the same time.
MaxWorkers == 2

\* Ids that requests may name in a path or a body (existing or not).
Ids == 1..MaxUsers
ClerkIds == {"clerk_a", "clerk_b"}
Names == {"ann", "bob"}
Workers == 1..MaxWorkers

\* A worker that is serving no send-request.
Idle == [pc |-> "idle", user_id |-> 0, friend_id |-> 0, existing |-> FALSE]

\* calls: where each worker thread is in the send-request it is serving.
VARIABLES users, friends, posts, comments, stories, now, resp, calls

vars == <<users, friends, posts, comments, stories, now, resp, calls>>

\* ---- store helpers ------------------------------------------------------
Max(S) == CHOOSE m \in S : \A x \in S : x <= m

\* id: Optional[int] = Field(default=None, primary_key=True) on INSERT.
NextId(table) == IF table = {} THEN 1 ELSE Max({r.id : r \in table}) + 1

\* The foreign keys the models declare: none (no Field(foreign_key=...)).
ForeignKeys == {}

\* select(A).join(B) without an ON clause: SQLAlchemy derives the ON clause
\* from a foreign key between the two tables and raises when there is none.
CanJoin(left, right) ==
    <<left, right>> \in ForeignKeys \/ <<right, left>> \in ForeignKeys

\* ---- services/user_service.py ------------------------------------------
get_user_by_id(us, user_id) == {u \in us : u.id = user_id}

\* A user table without the unique constraint.
NoUniqueViolation(us, row) == FALSE

\* clerk_user_id: str = Field(unique=True): the commit of a row whose
\* clerk_user_id another row holds raises IntegrityError.
UniqueViolation(us, row) ==
    \E u \in us : u.id # row.id /\ u.clerk_user_id = row.clerk_user_id

create_user(us, user) ==
    LET row == [id |-> NextId(us), clerk_user_id |-> user.clerk_user_id,
                name |-> user.name]
    IN IF UniqueViolation(us, row)
       THEN [raised |-> TRUE, users |-> us, user |-> {}]
       ELSE [raised |-> FALSE, users |-> us \cup {row}, user |-> {row}]

\* setattr of every field the request set (updated_user.dict(exclude_unset)).
Merge(u, upd) ==
    [k \in DOMAIN u |-> IF k \in DOMAIN upd THEN upd[k] ELSE u[k]]

update_user(us, user_id, upd) ==
    LET found == get_user_by_id(us, user_id)
    IN IF found = {}
       THEN [result |-> "none", users |-> us, user |-> {}]
       ELSE LET old == CHOOSE u \in found : TRUE
                new == Merge(old, upd)
                rest == us \ {old}
            IN IF \/ \E u \in rest : u.id = new.id
                  \/ UniqueViolation(rest, new)
               THEN [result |-> "raised", users |-> us, user |-> {}]
               ELSE [result |-> "ok", users |-> rest \cup {new},
                     user |-> {new}]

delete_user(us, user_id) ==
    LET found == get_user_by_id(us, user_id)
    IN IF found = {}
       THEN [ok |-> FALSE, users |-> us]
       ELSE [ok |-> TRUE, users |-> us \ found]

\* The rows the WHERE clause of get_friends selects.
friends_where(us, fr, user_id) ==
    {u \in us : \E r \in fr : /\ r.user_id = user_id
                              /\ r.friend_id = u.id
                              /\ r.status = "accepted"}

get_friends(us, fr, user_id) ==
    IF ~CanJoin("user", "friend")
    THEN [raised |-> TRUE, rows |-> {}]
    ELSE [raised |-> FALSE, rows |-> friends_where(us, fr, user_id)]

\* The rows the WHERE clause of get_pending_friend_requests selects.
pending_where(us, fr, user_id) ==
    {u \in us : \E r \in fr : /\ r.friend_id = user_id
                              /\ r.status = "pending"
                              /\ r.user_id = u.id}

get_pending_friend_requests(us, fr, user_id) ==
    IF ~CanJoin("user", "friend")
    THEN [raised |-> TRUE, rows |-> {}]
    ELSE [raised |-> FALSE, rows |-> pending_where(us, fr, user_id)]

\* An accept that writes the third status of the model.
accept_sets_blocked(fr, user_id, friend_id) ==
    LET matching == {r \in fr : /\ r.user_id = friend_id
                                /\ r.friend_id = user_id
                                /\ r.status = "pending"}
    IN IF matching = {}
       THEN {[ok |-> FALSE, friends |-> fr]}
       ELSE {[ok |-> TRUE,
              friends |-> (fr \ {r}) \cup {[r EXCEPT !.status = "blocked"]}]
             : r \in matching}

\* Each of the four operations below takes .first() of a SELECT without
\* ORDER BY: any matching row may be the one returned, so each operator is
\* the set of the outcomes the call can have.
accept_friend_request(fr, user_id, friend_id) ==
    LET matching == {r \in fr : /\ r.user_id = friend_id
                                /\ r.friend_id = user_id
                                /\ r.status = "pending"}
    IN IF matching = {}
       THEN {[ok |-> FALSE, friends |-> fr]}
       ELSE {[ok |-> TRUE,
              friends |-> (fr \ {r}) \cup {[r EXCEPT !.status = "accepted"]}]
             : r \in matching}

reject_friend_request(fr, user_id, friend_id) ==
    LET matching == {r \in fr : /\ r.user_id = friend_id
                                /\ r.friend_id = user_id
                                /\ r.status = "pending"}
    IN IF matching = {}
       THEN {[ok |-> FALSE, friends |-> fr]}
       ELSE {[ok |-> TRUE, friends |-> fr \ {r}] : r \in matching}

\* A send that takes only a pending row for an existing request.
send_checks_pending_only(fr, user_id, friend_id) ==
    LET existing == {r \in fr : /\ r.user_id = user_id
                                /\ r.friend_id = friend_id
                                /\ r.status = "pending"}
    IN IF existing # {}
       THEN {[ok |-> FALSE, friends |-> fr]}
       ELSE {[ok |-> TRUE,
              friends |-> fr \cup {[id |-> NextId(fr), user_id |-> user_id,
                                    friend_id |-> friend_id,
                                    status |-> "pending"]}]}

send_friend_request(fr, user_id, friend_id) ==
    LET existing == {r \in fr : /\ r.user_id = user_id
                                /\ r.friend_id = friend_id}
    IN IF existing # {}
       THEN {[ok |-> FALSE, friends |-> fr]}
       ELSE {[ok |-> TRUE,
              friends |-> fr \cup {[id |-> NextId(fr), user_id |-> user_id,
                                    friend_id |-> friend_id,
                                    status |-> "pending"]}]}

\* The two statements of send_friend_request that reach the store, for
\* calls that other calls may run between: the SELECT ...
send_select(fr, user_id, friend_id) ==
    {r \in fr : r.user_id = user_id /\ r.friend_id = friend_id}

\* ... and the INSERT with its commit.
send_insert(fr, user_id, friend_id) ==
    fr \cup {[id |-> NextId(fr), user_id |-> user_id,
              friend_id |-> friend_id, status |-> "pending"]}

\* A remove that looks for the row in the direction of the call only.
remove_one_direction(fr, user_id, friend_id) ==
    LET matching == {r \in fr : /\ r.user_id = user_id
                                /\ r.friend_id = friend_id
                                /\ r.status = "accepted"}
    IN IF matching = {}
       THEN {[ok |-> FALSE, friends |-> fr]}
       ELSE {[ok |-> TRUE, friends |-> fr \ {r}] : r \in matching}

\* A remove without the status filter.
remove_any_status(fr, user_id, friend_id) ==
    LET matching ==
          {r \in fr :
             \/ (r.user_id = user_id /\ r.friend_id = friend_id)
             \/ (r.user_id = friend_id /\ r.friend_id = user_id)}
    IN IF matching = {}
       THEN {[ok |-> FALSE, friends |-> fr]}
       ELSE {[ok |-> TRUE, friends |-> fr \ {r}] : r \in matching}

remove_friend(fr, user_id, friend_id) ==
    LET matching ==
          {r \in fr :
             /\ \/ (r.user_id = user_id /\ r.friend_id = friend_id)
                \/ (r.user_id = friend_id /\ r.friend_id = user_id)
             /\ r.status = "accepted"}
    IN IF matching = {}
       THEN {[ok |-> FALSE, friends |-> fr]}
       ELSE {[ok |-> TRUE, friends |-> fr \ {r}] : r \in matching}

\* ---- services/post_service.py ------------------------------------------
\* A value for an Optional[int] left None.
NoId == 0

create_post(ps, post) ==
    LET row == [id |-> NextId(ps), user_id |-> post.user_id,
                created_at |-> post.created_at]
    IN [posts |-> ps \cup {row}, post |-> row]

add_comment(cs, comment) ==
    LET row == [id |-> NextId(cs), post_id |-> comment.post_id,
                user_id |-> comment.user_id,
                parent_comment_id |-> comment.parent_comment_id,
                created_at |-> comment.created_at]
    IN [comments |-> cs \cup {row}, comment |-> row]

add_reply(cs, reply) == add_comment(cs, reply)

\* ORDER BY created_at with the given direction: every listing of the rows
\* that respects it (rows of equal created_at come in any order).
OrderBy(rows, desc) ==
    LET n == Cardinality(rows)
    IN {s \in [1..n -> rows] :
          /\ \A i, j \in 1..n : i # j => s[i] # s[j]
          /\ \A i, j \in 1..n :
                i < j => IF desc THEN s[i].created_at >= s[j].created_at
                                 ELSE s[i].created_at <= s[j].created_at}

get_posts_for_user(ps, user_id) ==
    OrderBy({p \in ps : p.user_id = user_id}, TRUE)

get_timeline_posts(ps, user_id, friend_ids) ==
    OrderBy({p \in ps : p.user_id \in {user_id} \cup friend_ids}, TRUE)

get_comments_for_post(cs, post_id) ==
    OrderBy({c \in cs : c.post_id = post_id}, FALSE)

get_replies_for_comment(cs, comment_id) ==
    OrderBy({c \in cs : c.parent_comment_id = comment_id}, FALSE)

\* A delete_post that also deletes the comments of the post.
delete_post_cascade(ps, cs, post_id) ==
    LET existing == {p \in ps : p.id = post_id}
    IN IF existing = {}
       THEN [ok |-> FALSE, posts |-> ps, comments |-> cs]
       ELSE [ok |-> TRUE, posts |-> ps \ existing,
             comments |-> {c \in cs : c.post_id # post_id}]

\* session.get(Post, post_id), session.delete(existing_post): of the store
\* (posts ps, comments cs) only the post row goes.
delete_post(ps, cs, post_id) ==
    LET existing == {p \in ps : p.id = post_id}
    IN IF existing = {}
       THEN [ok |-> FALSE, posts |-> ps, comments |-> cs]
       ELSE [ok |-> TRUE, posts |-> ps \ existing, comments |-> cs]

\* A delete that reports success whether or not the row was there.
delete_comment_idempotent(cs, comment_id) ==
    [ok |-> TRUE, comments |-> {c \in cs : c.id # comment_id}]

delete_comment(cs, comment_id) ==
    LET existing == {c \in cs : c.id = comment_id}
    IN IF existing = {}
       THEN [ok |-> FALSE, comments |-> cs]
       ELSE [ok |-> TRUE, comments |-> cs \ existing]

\* ---- models/story.py, services/story_service.py ------------------------
\* timedelta(hours=24): two ticks of the model clock.
TTL == 2

\* Story(...): created_at and expires_at have a default factory each, and
\* each factory reads the clock itself: created_at at t1, expires_at at t2,
\* with t1 <= t2.
Story(user_id, t1, t2) ==
    [user_id |-> user_id, created_at |-> t1, expires_at |-> t2 + TTL]

create_story(ss, story) ==
    LET row == [id |-> NextId(ss), user_id |-> story.user_id,
                created_at |-> story.created_at,
                expires_at |-> story.expires_at]
    IN [stories |-> ss \cup {row}, story |-> row]

\* A story query that follows the friend rows in both directions.
get_stories_symmetric(fr, ss, user_id, utcnow) ==
    LET accepted == {q \in fr : q.status = "accepted"}
        friend_ids == {r.friend_id : r \in {q \in accepted :
                                               q.user_id = user_id}}
                      \cup {r.user_id : r \in {q \in accepted :
                                                q.friend_id = user_id}}
        allowed_user_ids == {user_id} \cup friend_ids
    IN {s \in ss : s.user_id \in allowed_user_ids /\ s.expires_at > utcnow}

get_stories_for_user(fr, ss, user_id, utcnow) ==
    LET friend_ids == {r.friend_id : r \in {q \in fr : /\ q.user_id = user_id
                                                     /\ q.status = "accepted"}}
        allowed_user_ids == {user_id} \cup friend_ids
    IN {s \in ss : s.user_id \in allowed_user_ids /\ s.expires_at > utcnow}

\* ---- requests -----------------------------------------------------------
\* The fields a PUT /users/{id} body may set (any subset of them).
OptField(k, vals) == {<<>>} \cup {[x \in {k} |-> v] : v \in vals}

UserUpdates ==
    {a @@ b @@ c : a \in OptField("id", Ids),
                   b \in OptField("clerk_user_id", ClerkIds),
                   c \in OptField("name", Names)}

Response(op, args, status, body) ==
    [op |-> op, args |-> args, status |-> status, body |-> body]

Init ==
    /\ users = {}
    /\ friends = {}
    /\ posts = {}
    /\ comments = {}
    /\ stories = {}
    /\ now = 0
    /\ resp = Response("none", <<>>, 0, {})
    /\ calls = [w \in Workers |-> Idle]

\* The post service only compares timestamps with each other, so two values
\* of the clock exercise it: the clock starts one tick before its last value.
InitPost ==
    /\ users = {}
    /\ friends = {}
    /\ posts = {}
    /\ comments = {}
    /\ stories = {}
    /\ now = MaxTime - 1
    /\ resp = Response("none", <<>>, 0, {})
    /\ calls = [w \in Workers |-> Idle]

\* ---- routes/user_route.py ----------------------------------------------
CreateUser ==
    \E c \in ClerkIds, n \in Names :
        /\ NextId(users) <= MaxUsers
        /\ LET r == create_user(users, [clerk_user_id |-> c, name |-> n])
           IN /\ users' = r.users
              /\ resp' = IF r.raised
                         THEN Response("create_user", <<c>>, 400, {})
                         ELSE Response("create_user", <<c>>, 201, r.user)
        /\ UNCHANGED <<friends, posts, comments, stories, now, calls>>

GetUser ==
    \E user_id \in Ids :
        /\ LET found == get_user_by_id(users, user_id)
           IN resp' = IF found = {}
                      THEN Response("get_user", <<user_id>>, 404, {})
                      ELSE Response("get_user", <<user_id>>, 200, found)
        /\ UNCHANGED <<users, friends, posts, comments, stories, now, calls>>

UpdateUser ==
    \E user_id \in Ids, upd \in UserUpdates :
        /\ LET r == update_user(users, user_id, upd)
           IN /\ users' = r.users
              /\ resp' = CASE r.result = "none" ->
                                Response("update_user", <<user_id>>, 404, {})
                           [] r.result = "raised" ->
                                Response("update_user", <<user_id>>, 500, {})
                           [] OTHER ->
                                Response("update_user", <<user_id>>, 200,
                                         r.user)
        /\ UNCHANGED <<friends, posts, comments, stories, now, calls>>

\* A delete that also deletes the rows naming the user.
DeleteUserCascade ==
    \E user_id \in Ids :
        /\ LET r == delete_user(users, user_id)
           IN /\ users' = r.users
              /\ resp' = Response("delete_user", <<user_id>>,
                                  IF r.ok THEN 200 ELSE 404, {})
        /\ friends' = {f \in friends : /\ f.user_id # user_id
                                       /\ f.friend_id # user_id}
        /\ posts' = {p \in posts : p.user_id # user_id}
        /\ comments' = {c \in comments : c.user_id # user_id}
        /\ stories' = {st \in stories : st.user_id # user_id}
        /\ UNCHANGED <<now, calls>>

DeleteUser ==
    \E user_id \in Ids :
        /\ LET r == delete_user(users, user_id)
           IN /\ users' = r.users
              /\ resp' = Response("delete_user", <<user_id>>,
                                  IF r.ok THEN 200 ELSE 404, {})
        /\ UNCHANGED <<friends, posts, comments, stories, now, calls>>

\* No handler catches the exception of the query: the framework answers 500.
GetFriends ==
    \E user_id \in Ids :
        /\ LET r == get_friends(users, friends, user_id)
           IN resp' = IF r.raised
                      THEN Response("get_friends", <<user_id>>, 500, {})
                      ELSE Response("get_friends", <<user_id>>, 200, r.rows)
        /\ UNCHANGED <<users, friends, posts, comments, stories, now, calls>>

GetPendingFriendRequests ==
    \E user_id \in Ids :
        /\ LET r == get_pending_friend_requests(users, friends, user_id)
           IN resp' = IF r.raised
                      THEN Response("get_pending", <<user_id>>, 500, {})
                      ELSE Response("get_pending", <<user_id>>, 200, r.rows)
        /\ UNCHANGED <<users, friends, posts, comments, stories, now, calls>>

\* A send route without the test for a request to oneself.
SendFriendRequestToAnyone ==
    \E user_id \in Ids, friend_id \in Ids :
        /\ \E o \in send_friend_request(friends, user_id, friend_id) :
              /\ \A r \in o.friends : r.id <= MaxFriends
              /\ friends' = o.friends
              /\ resp' = Response("send", <<user_id, friend_id>>,
                                  IF o.ok THEN 201 ELSE 400, {})
        /\ UNCHANGED <<users, posts, comments, stories, now, calls>>

SendFriendRequest ==
    \E user_id \in Ids, friend_id \in Ids :
        /\ IF user_id = friend_id
           THEN /\ friends' = friends
                /\ resp' = Response("send", <<user_id, friend_id>>, 400, {})
           ELSE \E o \in send_friend_request(friends, user_id, friend_id) :
                  /\ \A r \in o.friends : r.id <= MaxFriends
                  /\ friends' = o.friends
                  /\ resp' = Response("send", <<user_id, friend_id>>,
                                      IF o.ok THEN 201 ELSE 400, {})
        /\ UNCHANGED <<users, posts, comments, stories, now, calls>>

AcceptFriendRequest ==
    \E user_id \in Ids, friend_id \in Ids :
        /\ \E o \in accept_friend_request(friends, user_id, friend_id) :
              /\ friends' = o.friends
              /\ resp' = Response("accept", <<user_id, friend_id>>,
                                  IF o.ok THEN 200 ELSE 404, {})
        /\ UNCHANGED <<users, posts, comments, stories, now, calls>>

RejectFriendRequest ==
    \E user_id \in Ids, friend_id \in Ids :
        /\ \E o \in reject_friend_request(friends, user_id, friend_id) :
              /\ friends' = o.friends
              /\ resp' = Response("reject", <<user_id, friend_id>>,
                                  IF o.ok THEN 200 ELSE 404, {})
        /\ UNCHANGED <<users, posts, comments, stories, now, calls>>

RemoveFriend ==
    \E user_id \in Ids, friend_id \in Ids :
        /\ \E o \in remove_friend(friends, user_id, friend_id) :
              /\ friends' = o.friends
              /\ resp' = Response("remove", <<user_id, friend_id>>,
                                  IF o.ok THEN 200 ELSE 404, {})
        /\ UNCHANGED <<users, posts, comments, stories, now, calls>>

\* ---- send-request, served by worker threads ----------------------------
\* A worker takes a send-request and runs it up to the SELECT; a request of
\* a user to itself is answered before the service is called.
SendCheck(w) ==
    \E user_id \in Ids, friend_id \in Ids :
        /\ calls[w].pc = "idle"
        /\ IF user_id = friend_id
           THEN /\ resp' = Response("send", <<user_id, friend_id>>, 400, {})
                /\ UNCHANGED calls
           ELSE /\ calls' = [calls EXCEPT ![w] =
                                [pc |-> "checked", user_id |-> user_id,
                                 friend_id |-> friend_id,
                                 existing |->
                                    send_select(friends, user_id,
                                                friend_id) # {}]]
                /\ UNCHANGED resp
        /\ UNCHANGED <<users, friends, posts, comments, stories, now>>

\* The worker goes on from what its SELECT returned: it answers 400 for an
\* existing request, and inserts, commits and answers 201 otherwise.
SendInsert(w) ==
    /\ calls[w].pc = "checked"
    /\ LET c == calls[w]
       IN IF c.existing
          THEN /\ friends' = friends
               /\ resp' = Response("send", <<c.user_id, c.friend_id>>, 400, {})
          ELSE /\ NextId(friends) <= MaxFriends
               /\ friends' = send_insert(friends, c.user_id, c.friend_id)
               /\ resp' = Response("send", <<c.user_id, c.friend_id>>, 201, {})
    /\ calls' = [calls EXCEPT ![w] = Idle]
    /\ UNCHANGED <<users, posts, comments, stories, now>>

\* ---- routes/post_route.py ----------------------------------------------
PostIds == 1..MaxPosts
CommentIds == 1..MaxComments

CreatePost ==
    \E user_id \in Ids :
        /\ NextId(posts) <= MaxPosts
        /\ LET r == create_post(posts, [user_id |-> user_id,
                                        created_at |-> now])
           IN /\ posts' = r.posts
              /\ resp' = Response("create_post", <<user_id>>, 201, {r.post})
        /\ UNCHANGED <<users, friends, comments, stories, now, calls>>

GetPostsForUser ==
    \E user_id \in Ids :
        /\ \E listing \in get_posts_for_user(posts, user_id) :
              resp' = Response("get_posts", <<user_id>>, 200, listing)
        /\ UNCHANGED <<users, friends, posts, comments, stories, now, calls>>

GetTimelinePosts ==
    \E user_id \in Ids, friend_ids \in SUBSET Ids :
        /\ \E listing \in get_timeline_posts(posts, user_id, friend_ids) :
              resp' = Response("get_timeline", <<user_id, friend_ids>>, 200,
                               listing)
        /\ UNCHANGED <<users, friends, posts, comments, stories, now, calls>>

DeletePost ==
    \E post_id \in PostIds :
        /\ LET r == delete_post(posts, comments, post_id)
           IN /\ posts' = r.posts
              /\ comments' = r.comments
              /\ resp' = Response("delete_post", <<post_id>>,
                                  IF r.ok THEN 200 ELSE 404, {})
        /\ UNCHANGED <<users, friends, stories, now, calls>>

\* The row is built from the body alone: the post_id of the path is unused.
AddComment ==
    \E path_post_id \in PostIds, user_id \in Ids, post_id \in PostIds,
       parent \in {NoId} \cup CommentIds :
        /\ NextId(comments) <= MaxComments
        /\ LET r == add_comment(comments,
                                [post_id |-> post_id, user_id |-> user_id,
                                 parent_comment_id |-> parent,
                                 created_at |-> now])
           IN /\ comments' = r.comments
              /\ resp' = Response("add_comment", <<path_post_id>>, 201,
                                  {r.comment})
        /\ UNCHANGED <<users, friends, posts, stories, now, calls>>

\* The row is built from the body alone, parent_comment_id included.
AddReply ==
    \E user_id \in Ids, post_id \in PostIds,
       parent \in {NoId} \cup CommentIds :
        /\ NextId(comments) <= MaxComments
        /\ LET r == add_reply(comments,
                              [post_id |-> post_id, user_id |-> user_id,
                               parent_comment_id |-> parent,
                               created_at |-> now])
           IN /\ comments' = r.comments
              /\ resp' = Response("add_reply", <<>>, 201, {r.comment})
        /\ UNCHANGED <<users, friends, posts, stories, now, calls>>

GetCommentsForPost ==
    \E post_id \in PostIds :
        /\ \E listing \in get_comments_for_post(comments, post_id) :
              resp' = Response("get_comments", <<post_id>>, 200, listing)
        /\ UNCHANGED <<users, friends, posts, comments, stories, now, calls>>

GetRepliesForComment ==
    \E comment_id \in CommentIds :
        /\ \E listing \in get_replies_for_comment(comments, comment_id) :
              resp' = Response("get_replies", <<comment_id>>, 200, listing)
        /\ UNCHANGED <<users, friends, posts, comments, stories, now, calls>>

DeleteComment ==
    \E comment_id \in CommentIds :
        /\ LET r == delete_comment(comments, comment_id)
           IN /\ comments' = r.comments
              /\ resp' = Response("delete_comment", <<comment_id>>,
                                  IF r.ok THEN 200 ELSE 404, {})
        /\ UNCHANGED <<users, friends, posts, stories, now, calls>>

\* ---- routes/story_route.py ---------------------------------------------
\* Time passes between the two default factories of Story(...): the first
\* reads the clock at now, the second at t2.
CreateNewStory ==
    \E user_id \in Ids, t2 \in now..(now + MaxSkew) :
        /\ t2 <= MaxTime
        /\ NextId(stories) <= MaxStories
        /\ LET r == create_story(stories, Story(user_id, now, t2))
           IN /\ stories' = r.stories
              /\ resp' = Response("create_story", <<user_id>>, 201, {r.story})
        /\ now' = t2
        /\ UNCHANGED <<users, friends, posts, comments, calls>>

GetUserStories ==
    \E user_id \in Ids :
        /\ resp' = Response("get_stories", <<user_id>>, 200,
                            get_stories_for_user(friends, stories, user_id,
                                                 now))
        /\ UNCHANGED <<users, friends, posts, comments, stories, now, calls>>

\* ---- the clock ----------------------------------------------------------
Tick ==
    /\ now < MaxTime
    /\ now' = now + 1
    /\ UNCHANGED <<users, friends, posts, comments, stories, resp, calls>>

PostRoutes ==
    \/ CreatePost
    \/ GetPostsForUser
    \/ GetTimelinePosts
    \/ DeletePost
    \/ AddComment
    \/ AddReply
    \/ GetCommentsForPost
    \/ GetRepliesForComment
    \/ DeleteComment

StoryRoutes ==
    \/ CreateNewStory
    \/ GetUserStories

FriendChanges ==
    \/ SendFriendRequest
    \/ AcceptFriendRequest
    \/ RejectFriendRequest
    \/ RemoveFriend

UserRoutes ==
    \/ CreateUser
    \/ GetUser
    \/ UpdateUser
    \/ DeleteUser

FriendRoutes ==
    \/ GetFriends
    \/ GetPendingFriendRequests
    \/ SendFriendRequest
    \/ AcceptFriendRequest
    \/ RejectFriendRequest
    \/ RemoveFriend

NextUser == UserRoutes

NextFriend == FriendRoutes

NextUserFriend == UserRoutes \/ FriendRoutes

NextPost == PostRoutes \/ Tick

NextStory == StoryRoutes \/ FriendChanges \/ Tick

Next == UserRoutes \/ FriendRoutes \/ PostRoutes \/ StoryRoutes \/ Tick

\* The user table.
SpecUser == Init /\ [][NextUser]_vars

\* The friend table: the friend routes decide every write to it from its
\* own rows, and no other route writes it.
SpecFriend == Init /\ [][NextFriend]_vars

\* Users and friend requests.
SpecUserFriend == Init /\ [][NextUserFriend]_vars

\* Posts and comments.
SpecPost == InitPost /\ [][NextPost]_vars

\* Stories, the friend rows that decide their visibility, and the clock.
SpecStory == Init /\ [][NextStory]_vars

\* Send-requests served by several workers at the same time, and the
\* routes that answer them.
NextWorkers ==
    \/ \E w \in Workers : SendCheck(w)
    \/ \E w \in Workers : SendInsert(w)
    \/ AcceptFriendRequest
    \/ RejectFriendRequest
    \/ RemoveFriend

SpecWorkers == Init /\ [][NextWorkers]_vars

\* Every route.
Spec == Init /\ [][Next]_vars

StoreRows ==
    Cardinality(users) + Cardinality(friends) + Cardinality(posts)
        + Cardinality(comments) + Cardinality(stories)

\* The routes that answer 404 for a missing row, and the routes that create
\* the rows they address, on a store of at most MaxRows rows.
NextStore ==
    \/ CreateUser /\ StoreRows' <= MaxRows
    \/ SendFriendRequest /\ StoreRows' <= MaxRows
    \/ CreatePost /\ StoreRows' <= MaxRows
    \/ AddComment /\ StoreRows' <= MaxRows
    \/ UpdateUser
    \/ DeleteUser
    \/ AcceptFriendRequest
    \/ RejectFriendRequest
    \/ RemoveFriend
    \/ DeletePost
    \/ DeleteComment

\* The tables under the routes that update and delete single rows.
SpecStore == Init /\ [][NextStore]_vars

\* delete-user, and the routes that create the rows that name a user, on a
\* store of at most MaxRows rows.
NextOwner ==
    \/ CreateUser /\ StoreRows' <= MaxRows
    \/ SendFriendRequest /\ StoreRows' <= MaxRows
    \/ CreatePost /\ StoreRows' <= MaxRows
    \/ AddComment /\ StoreRows' <= MaxRows
    \/ CreateNewStory /\ StoreRows' <= MaxRows
    \/ DeleteUser

\* Users and the rows of the four other tables that name them.
SpecOwner == Init /\ [][NextOwner]_vars


\* ---- properties ---------------------------------------------------------
Directed(fr, a, b) == {r \in fr : r.user_id = a /\ r.friend_id = b}

Between(fr, a, b) == Directed(fr, a, b) \cup Directed(fr, b, a)

\* C1: a send-request(A,B) fails with 400 and leaves the friend table as it
\* is exactly when a row directed A->B exists, whatever its status; when
\* none exists it succeeds, whatever rows are directed B->A, and adds one
\* pending row directed A->B to the rows there were.
C1_SendRequestDirectional ==
    [][\A a, b \in Ids :
         (a # b /\ resp'.op = "send" /\ resp'.args = <<a, b>>) =>
            IF Directed(friends, a, b) # {}
            THEN resp'.status = 400 /\ friends' = friends
            ELSE /\ resp'.status = 201
                 /\ \E r \in friends' :
                       /\ r \notin friends
                       /\ \A q \in friends : q.id # r.id
                       /\ r.user_id = a /\ r.friend_id = b
                       /\ r.status = "pending"
                       /\ friends' = friends \cup {r}]_vars

\* C1: send-request(B,A) has just succeeded although a row A->B was there.
C1_Witness ==
    /\ resp.op = "send"
    /\ resp.status = 201
    /\ Directed(friends, resp.args[2], resp.args[1]) # {}
    /\ \E r \in Directed(friends, resp.args[1], resp.args[2]) :
          r.status = "pending"

\* C2: accept(A,B) succeeds exactly when a pending row directed B->A exists;
\* right after a successful accept(A,B) with no row directed A->B (and user
\* A stored), get-friends(B) answers with a list that includes A and
\* get-friends(A) with a list that does not include B.
C2_AcceptThenGetFriends ==
    [][/\ \A a, b \in Ids :
            (resp'.op = "accept" /\ resp'.args = <<a, b>>) =>
               (resp'.status = 200 <=>
                  \E r \in Directed(friends, b, a) : r.status = "pending")
       /\ \A a, b \in Ids :
            (/\ resp.op = "accept" /\ resp.args = <<a, b>>
             /\ resp.status = 200
             /\ Directed(friends, a, b) = {}
             /\ get_user_by_id(users, a) # {}
             /\ resp'.op = "get_friends") =>
               /\ resp'.args = <<b>> =>
                     /\ resp'.status = 200
                     /\ \E u \in resp'.body : u.id = a
               /\ resp'.args = <<a>> =>
                     /\ resp'.status = 200
                     /\ \A u \in resp'.body : u.id # b]_vars

\* C3: every friend row has status pending or accepted.
C3_StatusPendingOrAccepted ==
    \A r \in friends : r.status \in {"pending", "accepted"}

\* C3: an accepted row and a pending row are stored.
C3_Witness ==
    /\ \E r \in friends : r.status = "accepted"
    /\ \E r \in friends : r.status = "pending"

\* C4 as stated: a friend row stays as it is, or is pending and becomes
\* accepted, or is pending and is deleted; an accepted row is never deleted.
C4_OnlyPendingRowsChange ==
    [][\A r \in friends :
          \/ r \in friends'
          \/ /\ r.status = "pending"
             /\ friends' = (friends \ {r})
                             \cup {[r EXCEPT !.status = "accepted"]}
          \/ /\ r.status = "pending"
             /\ friends' = friends \ {r}]_vars

\* C4 as amended: a friend row stays as it is, or is pending and becomes
\* accepted (accept), or is pending and is deleted (reject), or is accepted
\* and is deleted (remove-friend); an accepted row never becomes pending.
C4_RowChanges ==
    [][\A r \in friends :
          \/ r \in friends'
          \/ /\ r.status = "pending"
             /\ resp'.op = "accept"
             /\ friends' = (friends \ {r})
                             \cup {[r EXCEPT !.status = "accepted"]}
          \/ /\ r.status = "pending"
             /\ resp'.op = "reject"
             /\ friends' = friends \ {r}
          \/ /\ r.status = "accepted"
             /\ resp'.op = "remove"
             /\ friends' = friends \ {r}]_vars

\* C4: remove-friend has just deleted an accepted row and a pending row
\* between the same two users is still stored.
C4_Witness ==
    /\ resp.op = "remove"
    /\ resp.status = 200
    /\ \E r \in Between(friends, resp.args[1], resp.args[2]) :
          r.status = "pending"

\* The response of a list-visible-stories request made at the time now.
StoriesQueried == resp'.op = "get_stories" /\ now' = now

\* C5: list-visible-stories(owner) returns a story created at T at every
\* query time before T + 24h and at no query time after T + 24h.
C5_VisibleFor24Hours ==
    [][StoriesQueried =>
         \A s \in stories :
            s.user_id = resp'.args[1] =>
               /\ now < s.created_at + TTL => s \in resp'.body
               /\ now > s.created_at + TTL => s \notin resp'.body]_vars

\* C6: every stored story expires exactly 24 hours after its created_at.
C6_ExpiryIsCreatedPlus24Hours ==
    \A s \in stories : s.expires_at = s.created_at + TTL

\* C7: list-visible-stories(u) answers with exactly the stored stories that
\* expire after the query time and are owned by u or by the friend_id of an
\* accepted row whose user_id is u.
C7_VisibleStories ==
    [][StoriesQueried =>
         LET u == resp'.args[1]
         IN /\ resp'.status = 200
            /\ \A s \in stories :
                  s \in resp'.body <=>
                     /\ s.expires_at > now
                     /\ \/ s.user_id = u
                        \/ \E r \in Directed(friends, u, s.user_id) :
                              r.status = "accepted"
            /\ resp'.body \subseteq stories]_vars

\* C7: the only row between u and v is an accepted row directed v->u, v has
\* just listed its visible stories, u's are among them, and v has an
\* unexpired story of its own, which the same row does not show to u.
C7_Witness ==
    /\ resp.op = "get_stories"
    /\ \E u, v \in Ids :
          /\ u # v
          /\ resp.args = <<v>>
          /\ Directed(friends, u, v) = {}
          /\ \E r \in Directed(friends, v, u) : r.status = "accepted"
          /\ \E s \in resp.body : s.user_id = u
          /\ \E s \in resp.body : s.user_id = v
          /\ \A s \in get_stories_for_user(friends, stories, u, now) :
                s.user_id = u

\* C8: delete-post(p) leaves the comment table as it is, so that the
\* comments of p stay the same, and on a stored post it answers 200 and
\* removes that post row alone.
C8_DeletePostKeepsComments ==
    [][(resp'.op = "delete_post" /\ now' = now) =>
         LET p == resp'.args[1]
         IN /\ comments' = comments
            /\ get_comments_for_post(comments', p)
                  = get_comments_for_post(comments, p)
            /\ (\E q \in posts : q.id = p) =>
                  /\ resp'.status = 200
                  /\ posts' = {q \in posts : q.id # p}]_vars

\* C8: a post has just been deleted that two comments refer to, and another
\* post is still stored.
C8_Witness ==
    /\ resp.op = "delete_post"
    /\ resp.status = 200
    /\ Cardinality({c \in comments : c.post_id = resp.args[1]}) = 2
    /\ posts # {}

\* C9: no two user rows have the same clerk_user_id, and a create-user
\* whose clerk_user_id a stored user has answers 400 and leaves the user
\* table as it is.
C9_ClerkUserIdUnique ==
    /\ [](\A u, v \in users : u.clerk_user_id = v.clerk_user_id => u = v)
    /\ [][(/\ resp'.op = "create_user"
           /\ \E u \in users : u.clerk_user_id = resp'.args[1]) =>
             (resp'.status = 400 /\ users' = users)]_vars

\* C9: a create-user has just been refused for its clerk_user_id.
C9_Witness ==
    /\ resp.op = "create_user"
    /\ resp.status = 400
    /\ \E u \in users : u.clerk_user_id = resp.args[1]

\* C10: whenever an accepted row exists between A and B in either direction
\* and user B is stored, get-friends(A) answers with a list that includes B.
C10_GetFriendsSymmetric ==
    resp.op = "get_friends" =>
       \A b \in Ids :
          (/\ \E r \in Between(friends, resp.args[1], b) :
                 r.status = "accepted"
           /\ get_user_by_id(users, b) # {}) =>
             /\ resp.status = 200
             /\ \E u \in resp.body : u.id = b


Accepted(rows) == {r \in rows : r.status = "accepted"}

Pending(rows) == {r \in rows : r.status = "pending"}

\* C11: remove-friend(A,B) answers 200 exactly when an accepted row exists
\* between A and B in either direction, and then deletes one such row and
\* nothing else; otherwise it answers 404 and leaves the friend table as it
\* is. A pending row is never deleted by it.
C11_RemoveFriendEitherDirection ==
    [][\A a, b \in Ids :
         (resp'.op = "remove" /\ resp'.args = <<a, b>>) =>
            IF Accepted(Between(friends, a, b)) = {}
            THEN resp'.status = 404 /\ friends' = friends
            ELSE /\ resp'.status = 200
                 /\ \E r \in Accepted(Between(friends, a, b)) :
                       friends' = friends \ {r}]_vars

\* C11: remove-friend(A,B) has just deleted the accepted row directed B->A,
\* and the pending row directed A->B is still stored.
C11_Witness ==
    /\ resp.op = "remove"
    /\ resp.status = 200
    /\ Pending(Directed(friends, resp.args[1], resp.args[2])) # {}
    /\ Accepted(friends) = {}

\* C12: reject(A,B) answers 200 exactly when a pending row directed B->A
\* exists, and then deletes that row and nothing else; right after it,
\* get-pending(A) answers with a list without B, and send-request(B,A)
\* succeeds.
C12_RejectThenPendingAndResend ==
    [][/\ \A a, b \in Ids :
            (resp'.op = "reject" /\ resp'.args = <<a, b>>) =>
               IF Pending(Directed(friends, b, a)) = {}
               THEN resp'.status = 404 /\ friends' = friends
               ELSE /\ resp'.status = 200
                    /\ \E r \in Pending(Directed(friends, b, a)) :
                          friends' = friends \ {r}
       /\ \A a, b \in Ids :
            (resp.op = "reject" /\ resp.args = <<a, b>>
               /\ resp.status = 200) =>
               /\ (resp'.op = "get_pending" /\ resp'.args = <<a>>) =>
                     /\ resp'.status = 200
                     /\ \A u \in resp'.body : u.id # b
               /\ (resp'.op = "send" /\ resp'.args = <<b, a>>) =>
                     resp'.status = 201]_vars

\* The answer of a route that did not find the row it was asked for.
NotFound ==
    /\ resp'.status = 404
    /\ UNCHANGED <<users, friends, posts, comments, stories>>

\* C13: update-user, delete-user, delete-post, delete-comment, accept,
\* reject and remove-friend answer 404 and leave all five tables as they
\* are when the row they address is not stored.
C13_MissingRowIs404 ==
    [][/\ \A id \in Ids :
            (resp'.op \in {"update_user", "delete_user"}
               /\ resp'.args = <<id>>
               /\ get_user_by_id(users, id) = {}) => NotFound
       /\ \A id \in PostIds :
            (resp'.op = "delete_post" /\ resp'.args = <<id>>
               /\ ~ \E p \in posts : p.id = id) => NotFound
       /\ \A id \in CommentIds :
            (resp'.op = "delete_comment" /\ resp'.args = <<id>>
               /\ ~ \E c \in comments : c.id = id) => NotFound
       /\ \A a, b \in Ids :
            (resp'.op \in {"accept", "reject"} /\ resp'.args = <<a, b>>
               /\ Pending(Directed(friends, b, a)) = {}) => NotFound
       /\ \A a, b \in Ids :
            (resp'.op = "remove" /\ resp'.args = <<a, b>>
               /\ Accepted(Between(friends, a, b)) = {}) => NotFound]_vars

\* C13: a delete-comment has just answered 404 with rows stored in the user,
\* friend and post tables.
C13_Witness ==
    /\ resp.op = "delete_comment"
    /\ resp.status = 404
    /\ users # {}
    /\ friends # {}
    /\ posts # {}

\* C14: a successful delete-user(u) deletes the user row of u and nothing
\* else: the friend, post, comment and story tables are as they were.
C14_DeleteUserKeepsOtherRows ==
    [][\A id \in Ids :
         (resp'.op = "delete_user" /\ resp'.args = <<id>>
            /\ resp'.status = 200) =>
            /\ \E u \in users : u.id = id /\ users' = users \ {u}
            /\ UNCHANGED <<friends, posts, comments, stories>>]_vars

\* C14: delete-user(u) has just succeeded, and a friend row and a story
\* still name u, whose id no user row holds.
C14_Witness ==
    /\ resp.op = "delete_user"
    /\ resp.status = 200
    /\ get_user_by_id(users, resp.args[1]) = {}
    /\ \E f \in friends : resp.args[1] \in {f.user_id, f.friend_id}
    /\ \E st \in stories : st.user_id = resp.args[1]

\* C15: a send-request of a user to itself answers 400 and writes no row,
\* and no friend row has user_id equal to friend_id.
C15_NoSelfRequest ==
    /\ [](\A r \in friends : r.user_id # r.friend_id)
    /\ [][\A a \in Ids :
            (resp'.op = "send" /\ resp'.args = <<a, a>>) =>
               (resp'.status = 400 /\ friends' = friends)]_vars

\* C15: a send-request of a user to itself has just been refused, with
\* requests of that user to another stored.
C15_Witness ==
    /\ resp.op = "send"
    /\ resp.args[1] = resp.args[2]
    /\ resp.status = 400
    /\ \E r \in friends : r.user_id = resp.args[1]

\* C16: no ordered pair (user_id, friend_id) has more than one friend row,
\* also when send-requests are served at the same time, each running its
\* SELECT and its INSERT as two steps.
C16_OneRowPerOrderedPair ==
    \A a, b \in Ids : Cardinality(Directed(friends, a, b)) <= 1

\* C17: after a successful remove-friend(A,B) no accepted row is left
\* between A and B in either direction.
C17_RemoveLeavesNoAcceptedRow ==
    [][\A a, b \in Ids :
         (resp'.op = "remove" /\ resp'.args = <<a, b>>
            /\ resp'.status = 200) =>
            Accepted(Between(friends', a, b)) = {}]_vars

\* C18: no two users have an accepted row and a pending row between them.
C18_NeverAcceptedAndPending ==
    \A a, b \in Ids :
       ~ /\ Accepted(Between(friends, a, b)) # {}
         /\ Pending(Between(friends, a, b)) # {}

====
